---- MODULE Spec2Model ----
(***************************************************************************)
(* The AWS SecretsManager key store of kes                                 *)
(* (internal/keystore/aws/secrets-manager.go): Connect, Status, Create,    *)
(* Set, Get, Delete, List and Close of Store, over a model of the          *)
(* SecretsManager service the client talks to.                             *)
(*                                                                         *)
(* Names, prefixes and cursors are sequences of character codes, values    *)
(* are sequences of bytes.  An optional (a Go pointer or a nil-able        *)
(* slice) is the empty sequence for nil and <<x>> for a present x.         *)
(***************************************************************************)
EXTENDS Integers, Sequences, FiniteSets, TLC

VARIABLES
    store,      \* the *Store Connect returned, or NoStore
    vault,      \* the secrets held by the service the client is bound to
    status,     \* history: per name "never", "live", "deleted" or "lost"
    written,    \* history: per name the value a Create or Set that returned
                \* nil stored, until a Delete of the name takes it away
    last        \* history: the last call, its inputs, vendor reply and result

vars == <<store, vault, status, written, last>>

\* ------------------------------------------------------------- bounds

\* Largest non-negative n given to List.
MaxLimit == 2
\* Largest page size of the vendor's paginated listing.
MaxPageSize == 2

\* ------------------------------------------------------------- data

None == <<>>
Some(x) == <<x>>

Names == {<<1>>, <<1, 2>>, <<2>>}
\* The names Create, Set and Delete are called with.
Keys == {<<1>>, <<1, 2>>}
Prefixes == {<<>>, <<1>>, <<2>>, <<3>>}
Values == {<<104>>, <<255, 0>>}

\* The default regional endpoint and the custom endpoint of an address.
DefaultEndpoint(region) == <<"https://secretsmanager.", region, ".amazonaws.com">>
CustomEndpoint(addr) == <<"https://", addr>>

\* Config values Connect is called with.  "bad addr" is an address that
\* does not parse as a URL host.
NoLogin == [AccessKey |-> "", SecretKey |-> "", SessionToken |-> ""]
StaticLogin == [AccessKey |-> "AK", SecretKey |-> "SK", SessionToken |-> ""]

Configs ==
    { [Addr |-> "", Region |-> "eu-west-1", KMSKeyID |-> "", Login |-> NoLogin],
      [Addr |-> "localhost:4566", Region |-> "eu-west-1", KMSKeyID |-> "alias/kes",
       Login |-> StaticLogin],
      [Addr |-> "bad addr", Region |-> "eu-west-1", KMSKeyID |-> "", Login |-> NoLogin] }

NoStore == [connected |-> FALSE]

\* ------------------------------------------------------------- errors

\* The nil error.
Nil == [kind |-> "nil"]

\* An error returned by the SDK client: ctx is the context error in its
\* chain (errors.Is), typed the exception type in its chain (errors.As),
\* code the ErrorCode() of the smithy.APIError in its chain ("" when there
\* is none, as for a transport error).
VendorErr(ctx, typed, code) ==
    [kind |-> "vendor", ctx |-> ctx, typed |-> typed, code |-> code]

ResourceExistsException ==
    VendorErr("none", "ResourceExistsException", "ResourceExistsException")
ResourceNotFoundException ==
    VendorErr("none", "ResourceNotFoundException", "ResourceNotFoundException")
DecryptionFailure == VendorErr("none", "DecryptionFailure", "DecryptionFailure")

\* Vendor replies that report the absence of the secret.
NotFoundReplies ==
    { ResourceNotFoundException,
      VendorErr("none", "none", "ResourceNotFoundException") }

\* Vendor replies that report that the secret cannot be decrypted.
DecryptionReplies ==
    { DecryptionFailure,
      VendorErr("none", "none", "DecryptionFailureException") }

\* Context errors, alone or with the vendor error that accompanies them.
Canceled == VendorErr("Canceled", "none", "")
CtxErrors ==
    { Canceled,
      VendorErr("Canceled", "ResourceExistsException", "ResourceExistsException"),
      VendorErr("DeadlineExceeded", "ResourceNotFoundException",
                "ResourceNotFoundException"),
      VendorErr("DeadlineExceeded", "DecryptionFailure", "DecryptionFailure") }

\* Other failures: a service error with another code, a transport error.
OtherErrors ==
    { VendorErr("none", "none", "InternalServiceError"),
      VendorErr("none", "none", "") }

Faults == CtxErrors \cup OtherErrors

\* errors.Is(err, context.Canceled) || errors.Is(err, context.DeadlineExceeded)
IsContextErr(err) ==
    err.kind \in {"vendor", "http"} /\ err.ctx \in {"Canceled", "DeadlineExceeded"}

\* errors.As(err, &t) for an exception type t.
AsTyped(err, t) == err.kind = "vendor" /\ err.typed = t

\* errors.As(err, &apiErr) && apiErr.ErrorCode() == c
AsAPICode(err, c) == err.kind = "vendor" /\ err.code # "" /\ err.code = c

ErrKeyExists == [kind |-> "ErrKeyExists"]
ErrKeyNotFound == [kind |-> "ErrKeyNotFound"]

\* fmt.Errorf("<msg> '%s': %v", name, err)
Errorf(msg, name, err) == [kind |-> "Errorf", msg |-> msg, name |-> name, cause |-> err]

\* &keystore.ErrUnreachable{Err: err}
ErrUnreachable(err) == [kind |-> "ErrUnreachable", Err |-> err]

\* ------------------------------------------------------------- the service

NoSecret == [present |-> FALSE, SecretString |-> None, SecretBinary |-> None,
             KmsKeyId |-> None]

Present(v) == {n \in Names : v[n].present}

\* CreateSecret: the service stores the secret iff the name is free, and
\* answers ResourceExistsException otherwise.  A fault leaves the vault as
\* it is; a context error may arrive after the service applied the request.
CreateSecret(v, input) ==
    LET stored == [v EXCEPT ![input.Name] =
                       [present |-> TRUE, SecretString |-> input.SecretString,
                        SecretBinary |-> None, KmsKeyId |-> input.KmsKeyId]]
        after == IF v[input.Name].present THEN v ELSE stored
    IN  {[err |-> IF v[input.Name].present THEN ResourceExistsException ELSE Nil,
          vault |-> after, answered |-> TRUE]}
        \cup {[err |-> f, vault |-> v, answered |-> FALSE] : f \in Faults}
        \cup {[err |-> Canceled, vault |-> after, answered |-> FALSE]}

\* GetSecretValue: the payload of a present secret (as SecretString or as
\* SecretBinary, whichever it was stored as), a decryption failure, or a
\* not-found answer for an absent one.
GetSecretValue(v, input) ==
    LET e == v[input.SecretId]
    IN  (IF e.present
         THEN {[err |-> Nil, SecretString |-> e.SecretString,
                SecretBinary |-> e.SecretBinary, answered |-> TRUE]}
              \cup {[err |-> d, SecretString |-> None, SecretBinary |-> None,
                     answered |-> TRUE] : d \in DecryptionReplies}
         ELSE {[err |-> nf, SecretString |-> None, SecretBinary |-> None,
                answered |-> TRUE] : nf \in NotFoundReplies})
        \cup {[err |-> f, SecretString |-> None, SecretBinary |-> None,
               answered |-> FALSE] : f \in Faults}

\* DeleteSecret: with ForceDeleteWithoutRecovery the secret is removed at
\* once; without it the service keeps the secret for the recovery window.
\* An absent secret is answered with a not-found reply.
DeleteSecret(v, input) ==
    LET removed == IF input.ForceDeleteWithoutRecovery
                   THEN [v EXCEPT ![input.SecretId] = NoSecret]
                   ELSE v
    IN  (IF v[input.SecretId].present
         THEN {[err |-> Nil, vault |-> removed, answered |-> TRUE]}
         ELSE {[err |-> nf, vault |-> v, answered |-> TRUE] : nf \in NotFoundReplies})
        \cup {[err |-> f, vault |-> v, answered |-> FALSE] : f \in Faults}
        \cup {[err |-> Canceled, vault |-> removed, answered |-> FALSE]}

\* ------------------------------------------------------------- Store

\* string(value): a Go string holding the bytes of the slice.
StringOf(value) == [str |-> value]
\* []byte(s): the bytes of the string.
BytesOf(s) == s.str

CreateSecretInput(cfg, name, value) ==
    [Name |-> name,
     SecretString |-> Some(StringOf(value)),
     KmsKeyId |-> IF cfg.KMSKeyID # "" THEN Some(cfg.KMSKeyID) ELSE None]

\* CreateErr without the ResourceExistsException case.
CreateErrNoExists(name, err) ==
    IF err = Nil THEN Nil
    ELSE IF IsContextErr(err) THEN err
    ELSE Errorf("aws: failed to create", name, err)

\* CreateErr that looks for the exception before the context error.
CreateErrExistsFirst(name, err) ==
    IF err = Nil THEN Nil
    ELSE IF AsTyped(err, "ResourceExistsException") THEN ErrKeyExists
    ELSE IF IsContextErr(err) THEN err
    ELSE Errorf("aws: failed to create", name, err)

\* The error Create returns for the error of s.client.CreateSecret.
CreateErr(name, err) ==
    IF err = Nil THEN Nil
    ELSE IF IsContextErr(err) THEN err
    ELSE IF AsTyped(err, "ResourceExistsException") THEN ErrKeyExists
    ELSE Errorf("aws: failed to create", name, err)

\* Store.Create: every outcome the call can have in vault v.
Create(v, cfg, name, value) ==
    { [err |-> CreateErr(name, r.err), vault |-> r.vault, reply |-> r]
        : r \in CreateSecret(v, CreateSecretInput(cfg, name, value)) }

\* Set that overwrites the value of a name the vault holds.
SetOverwrites(v, cfg, name, value) ==
    IF v[name].present
    THEN {[err |-> Nil,
           vault |-> [v EXCEPT ![name].SecretString = Some(StringOf(value))],
           reply |-> [err |-> Nil, vault |-> v, answered |-> TRUE]]}
    ELSE Create(v, cfg, name, value)

\* Store.Set: it calls Create.
Set(v, cfg, name, value) == Create(v, cfg, name, value)

GetSecretValueInput(name) == [SecretId |-> name]

\* GetErr without the switch over apiErr.ErrorCode().
GetErrTypedOnly(name, err) ==
    IF err = Nil THEN Nil
    ELSE IF IsContextErr(err) THEN err
    ELSE IF AsTyped(err, "DecryptionFailure")
         THEN Errorf("aws: cannot access", name, err)
    ELSE IF AsTyped(err, "ResourceNotFoundException") THEN ErrKeyNotFound
    ELSE Errorf("aws: failed to read", name, err)

\* The error Get returns for the error of s.client.GetSecretValue.
GetErr(name, err) ==
    IF err = Nil THEN Nil
    ELSE IF IsContextErr(err) THEN err
    ELSE IF AsTyped(err, "DecryptionFailure")
         THEN Errorf("aws: cannot access", name, err)
    ELSE IF AsTyped(err, "ResourceNotFoundException") THEN ErrKeyNotFound
    ELSE IF AsAPICode(err, "DecryptionFailureException")
         THEN Errorf("aws: cannot access", name, err)
    ELSE IF AsAPICode(err, "ResourceNotFoundException") THEN ErrKeyNotFound
    ELSE Errorf("aws: failed to read", name, err)

\* GetValue that reads SecretBinary alone.
GetValueBinaryOnly(response) == response.SecretBinary

\* The value Get returns for a response: the bytes of SecretString when it
\* is set, SecretBinary (nil when unset) otherwise.
GetValue(response) ==
    IF response.SecretString # None
    THEN Some(BytesOf(response.SecretString[1]))
    ELSE response.SecretBinary

\* Store.Get: every outcome the call can have in vault v.
Get(v, name) ==
    { [value |-> IF r.err = Nil THEN GetValue(r) ELSE None,
       err |-> GetErr(name, r.err), vault |-> v, reply |-> r]
        : r \in GetSecretValue(v, GetSecretValueInput(name)) }

\* DeleteSecretInput that leaves the recovery window in place.
DeleteSecretInputNoForce(name) ==
    [SecretId |-> name, ForceDeleteWithoutRecovery |-> FALSE]

DeleteSecretInput(name) == [SecretId |-> name, ForceDeleteWithoutRecovery |-> TRUE]

\* The error Delete returns for the error of s.client.DeleteSecret.
DeleteErr(name, err) ==
    IF err = Nil THEN Nil
    ELSE IF IsContextErr(err) THEN err
    ELSE IF AsTyped(err, "ResourceNotFoundException") THEN ErrKeyNotFound
    ELSE IF AsAPICode(err, "ResourceNotFoundException") THEN ErrKeyNotFound
    ELSE Errorf("aws: failed to delete", name, err)

\* Store.Delete: every outcome the call can have in vault v.
Delete(v, name) ==
    { [err |-> DeleteErr(name, r.err), vault |-> r.vault, reply |-> r]
        : r \in DeleteSecret(v, DeleteSecretInput(name)) }

\* ------------------------------------------------------------- listing

\* The sequences that hold every element of S exactly once.
Perms(S) ==
    {f \in [1..Cardinality(S) -> S] : \A i, j \in 1..Cardinality(S) : f[i] = f[j] => i = j}

\* The secrets of a listing: every present name once, in an order the
\* service chooses, and possibly an entry that carries no name.
Listings(v) ==
    LET named == {[i \in 1..Len(p) |-> [Name |-> Some(p[i])]] : p \in Perms(Present(v))}
    IN  named \cup {<<[Name |-> None]>> \o l : l \in named}

RECURSIVE Chunks(_, _)
\* The listing cut into pages of at most size entries.
Chunks(listing, size) ==
    IF Len(listing) <= size THEN <<listing>>
    ELSE <<SubSeq(listing, 1, size)>> \o Chunks(SubSeq(listing, size + 1, Len(listing)), size)

\* The errors a page fetch fails with.
ListFaults == {Canceled, VendorErr("none", "none", "InternalServiceError")}

\* ListSecrets through the paginator: the pages of a listing, and the page
\* (0: none) whose fetch fails, with the error it fails with.
ListSecretsPages(v) ==
    UNION { UNION { {[pages |-> Chunks(l, size), failAt |-> 0, err |-> Nil]}
                    \cup {[pages |-> Chunks(l, size), failAt |-> k, err |-> f]
                            : k \in 1..Len(Chunks(l, size)), f \in ListFaults}
                    : size \in 1..MaxPageSize }
            : l \in Listings(v) }

RECURSIVE SecretNames(_)
\* The names of a page's SecretList, entries without a name skipped.
SecretNames(page) ==
    IF page = <<>> THEN <<>>
    ELSE (IF Head(page).Name # None THEN <<Head(page).Name[1]>> ELSE <<>>)
         \o SecretNames(Tail(page))

\* The loop of List ending after the first page.
ListLoopFirstPage(pages, i, failAt, fault, names) ==
    IF i > Len(pages) THEN [names |-> names, err |-> Nil]
    ELSE IF i = failAt THEN [names |-> <<>>, err |-> fault]
    ELSE [names |-> names \o SecretNames(pages[i]), err |-> Nil]

RECURSIVE ListLoop(_, _, _, _, _)
\* The loop of List from page i on: names holds what the pages before i
\* gave.  A failing page ends the call with the error and no names.
ListLoop(pages, i, failAt, fault, names) ==
    IF i > Len(pages) THEN [names |-> names, err |-> Nil]
    ELSE IF i = failAt THEN [names |-> <<>>, err |-> fault]
    ELSE ListLoop(pages, i + 1, failAt, fault, names \o SecretNames(pages[i]))

\* strings.HasPrefix(name, prefix)
HasPrefix(name, prefix) ==
    Len(prefix) <= Len(name) /\ SubSeq(name, 1, Len(prefix)) = prefix

\* a < b for names, lexicographically.
NameLess(a, b) ==
    \E i \in 1..(Len(a) + 1) :
        /\ \A j \in 1..(i - 1) : j <= Len(b) /\ a[j] = b[j]
        /\ i <= Len(b)
        /\ (i > Len(a) \/ a[i] < b[i])

RECURSIVE InsertName(_, _)
InsertName(sorted, x) ==
    IF sorted = <<>> THEN <<x>>
    ELSE IF NameLess(x, Head(sorted)) THEN <<x>> \o sorted
    ELSE <<Head(sorted)>> \o InsertName(Tail(sorted), x)

RECURSIVE SortNames(_)
SortNames(names) ==
    IF names = <<>> THEN <<>>
    ELSE InsertName(SortNames(Tail(names)), Head(names))

\* keystore.List(names, prefix, n): the names with the prefix in
\* lexicographic order, all of them for a negative n and the first n
\* otherwise, and the name the listing continues from (empty at its end).
KeystoreList(names, prefix, n) ==
    LET IsMatch(x) == HasPrefix(x, prefix)
        matching == SelectSeq(SortNames(names), IsMatch)
    IN  IF n < 0 \/ n >= Len(matching)
        THEN [names |-> matching, cursor |-> <<>>, err |-> Nil]
        ELSE [names |-> SubSeq(matching, 1, n), cursor |-> matching[n + 1], err |-> Nil]

\* Store.List: every outcome the call can have in vault v.
List(v, prefix, n) ==
    { LET c == ListLoop(r.pages, 1, r.failAt, r.err, <<>>)
          res == IF c.err # Nil
                 THEN [names |-> <<>>, cursor |-> <<>>, err |-> c.err]
                 ELSE KeystoreList(c.names, prefix, n)
      IN  [names |-> res.names, cursor |-> res.cursor, err |-> res.err,
           npages |-> Len(r.pages), reply |-> r.err]
        : r \in ListSecretsPages(v) }

\* ------------------------------------------------------------- Connect, Status

\* An error of http.DefaultClient.Do: ctx is the context error in its chain,
\* cause what kept the probe from an answer.
HTTPErr(ctx, cause) == [kind |-> "http", ctx |-> ctx, cause |-> cause]

\* What the probe request can end with: an answer (Nil) or an error.
ProbeOutcomes ==
    { Nil,
      HTTPErr("none", "dns"), HTTPErr("none", "connection refused"),
      HTTPErr("none", "tls"),
      HTTPErr("Canceled", "context"), HTTPErr("DeadlineExceeded", "context") }

\* The error of http.NewRequestWithContext for a URL that does not parse.
URLErr(endpoint) == [kind |-> "url", url |-> endpoint]
ValidURL(endpoint) == endpoint # CustomEndpoint("bad addr")

\* The endpoint Status probes.
StatusEndpoint(cfg) ==
    IF cfg.Addr = "" THEN DefaultEndpoint(cfg.Region) ELSE CustomEndpoint(cfg.Addr)

\* Store.Status, given what the probe request ends with.
Status(cfg, probe) ==
    LET endpoint == StatusEndpoint(cfg)
    IN  IF ~ValidURL(endpoint)
        THEN [state |-> [Latency |-> "zero"], err |-> URLErr(endpoint),
              probed |-> None]
        ELSE IF probe # Nil
        THEN [state |-> [Latency |-> "zero"], err |-> ErrUnreachable(probe),
              probed |-> Some(endpoint)]
        ELSE [state |-> [Latency |-> "measured"], err |-> Nil,
              probed |-> Some(endpoint)]

\* secretsmanager.NewDefaultEndpointResolverV2().ResolveEndpoint(ctx, params)
DefaultResolveEndpoint(params) == DefaultEndpoint(params.Region)

\* customEndpointResolver.ResolveEndpoint
ResolveEndpoint(r, params) == DefaultResolveEndpoint(params)

\* The endpoint the client sends its requests to.
ClientEndpoint(client) ==
    IF client.EndpointResolverV2 # None
    THEN ResolveEndpoint(client.EndpointResolverV2[1], [Region |-> client.Region])
    ELSE DefaultResolveEndpoint([Region |-> client.Region])

\* What config.LoadDefaultConfig can end with.
LoadOutcomes == {Nil, [kind |-> "config"]}

\* The credentials the options of Connect select.
CredentialsOf(cfg) ==
    IF cfg.Login.AccessKey # "" \/ cfg.Login.SecretKey # "" \/ cfg.Login.SessionToken # ""
    THEN [provider |-> "static", login |-> cfg.Login]
    ELSE [provider |-> "default chain", login |-> cfg.Login]

\* Connect that drops the error of Status.
ConnectNoProbeCheck(cfg, load, probe) ==
    IF load # Nil THEN [store |-> NoStore, err |-> load, probed |-> None, ran |-> FALSE]
    ELSE [store |-> [connected |-> TRUE, config |-> cfg,
                     client |-> [Region |-> cfg.Region,
                                 Credentials |-> CredentialsOf(cfg),
                                 EndpointResolverV2 |->
                                     IF cfg.Addr # ""
                                     THEN Some([endpoint |-> CustomEndpoint(cfg.Addr)])
                                     ELSE None]],
          err |-> Nil, probed |-> Status(cfg, probe).probed, ran |-> TRUE]

\* Connect, given what loading the SDK configuration and the probe end with.
Connect(cfg, load, probe) ==
    IF load # Nil THEN [store |-> NoStore, err |-> load, probed |-> None, ran |-> FALSE]
    ELSE
        LET c == [connected |-> TRUE, config |-> cfg,
                  client |-> [Region |-> cfg.Region,
                              Credentials |-> CredentialsOf(cfg),
                              EndpointResolverV2 |->
                                  IF cfg.Addr # ""
                                  THEN Some([endpoint |-> CustomEndpoint(cfg.Addr)])
                                  ELSE None]]
            st == Status(c.config, probe)
        IN  IF st.err # Nil
            THEN [store |-> NoStore, err |-> st.err, probed |-> st.probed, ran |-> TRUE]
            ELSE [store |-> c, err |-> Nil, probed |-> st.probed, ran |-> TRUE]

\* Store.Close
Close == Nil

\* ------------------------------------------------------------- the calls

Limits == (-1)..MaxLimit

EmptyVault == [n \in Names |-> NoSecret]

\* The vault a run starts from: it holds one secret, stored as
\* SecretBinary by another client.
InitVault ==
    [EmptyVault EXCEPT ![<<2>>] =
        [present |-> TRUE, SecretString |-> None, SecretBinary |-> Some(<<7>>),
         KmsKeyId |-> None]]

\* The vaults a listing is taken of: any set of names, each stored by Create.
ListVaults ==
    { [m \in Names |->
          IF m \in S
          THEN [present |-> TRUE, SecretString |-> Some(StringOf(<<104>>)),
                SecretBinary |-> None, KmsKeyId |-> None]
          ELSE NoSecret] : S \in SUBSET Names }

\* The record of a call: every field a call does not set keeps this value.
Blank(v) ==
    [op |-> "none", name |-> <<>>, value |-> <<>>, prefix |-> <<>>, n |-> 0,
     pre |-> v, reply |-> Nil, answered |-> FALSE, err |-> Nil, out |-> <<>>,
     cursor |-> <<>>, endpoint |-> None, npages |-> 0, was |-> "none",
     cfg |-> None, ran |-> FALSE]

\* The history of each name after a call: "live" while the vault holds it,
\* "deleted" once a Delete of it returned nil, "lost" when it went away
\* under a Delete that returned an error.
NextStatus(st, v2, op, name, err) ==
    [m \in Names |->
        IF v2[m].present THEN "live"
        ELSE IF op = "Delete" /\ m = name /\ err = Nil THEN "deleted"
        ELSE IF st[m] = "live" THEN "lost"
        ELSE st[m]]

\* The values written after a call: what a Create or Set that returned nil
\* stored, forgotten once the vault no longer holds the name.
NextWritten(w, v2, op, name, value, err) ==
    [m \in Names |->
        IF ~v2[m].present THEN None
        ELSE IF op \in {"Create", "Set"} /\ m = name /\ err = Nil THEN Some(value)
        ELSE w[m]]

Init ==
    /\ store = NoStore
    /\ vault = InitVault
    /\ status = [m \in Names |-> IF vault[m].present THEN "live" ELSE "never"]
    /\ written = [m \in Names |-> None]
    /\ last = Blank(vault)

CallConnect ==
    /\ ~store.connected
    /\ \E cfg \in Configs, load \in LoadOutcomes, probe \in ProbeOutcomes :
        LET r == Connect(cfg, load, probe)
        IN  /\ store' = r.store
            /\ last' = [Blank(vault) EXCEPT !.op = "Connect", !.cfg = Some(cfg),
                           !.reply = IF r.ran THEN probe ELSE Nil,
                           !.err = r.err, !.endpoint = r.probed, !.ran = r.ran]
    /\ UNCHANGED <<vault, status, written>>

CallStatus ==
    /\ store.connected
    /\ \E probe \in ProbeOutcomes :
        LET r == Status(store.config, probe)
        IN  last' = [Blank(vault) EXCEPT !.op = "Status", !.reply = probe,
                        !.err = r.err, !.out = Some(r.state),
                        !.endpoint = r.probed, !.ran = TRUE]
    /\ UNCHANGED <<store, vault, status, written>>

CallCreate ==
    /\ store.connected
    /\ \E name \in Keys, value \in Values :
        \E r \in Create(vault, store.config, name, value) :
            /\ vault' = r.vault
            /\ status' = NextStatus(status, r.vault, "Create", name, r.err)
            /\ written' = NextWritten(written, r.vault, "Create", name, value, r.err)
            /\ last' = [Blank(vault) EXCEPT !.op = "Create", !.name = name,
                           !.value = value, !.reply = r.reply.err,
                           !.answered = r.reply.answered, !.err = r.err,
                           !.endpoint = Some(ClientEndpoint(store.client)),
                           !.was = status[name]]
    /\ UNCHANGED store

CallSet ==
    /\ store.connected
    /\ \E name \in Keys, value \in Values :
        \E r \in Set(vault, store.config, name, value) :
            /\ vault' = r.vault
            /\ status' = NextStatus(status, r.vault, "Set", name, r.err)
            /\ written' = NextWritten(written, r.vault, "Set", name, value, r.err)
            /\ last' = [Blank(vault) EXCEPT !.op = "Set", !.name = name,
                           !.value = value, !.reply = r.reply.err,
                           !.answered = r.reply.answered, !.err = r.err,
                           !.endpoint = Some(ClientEndpoint(store.client)),
                           !.was = status[name]]
    /\ UNCHANGED store

CallGet ==
    /\ store.connected
    /\ \E name \in Names :
        \E r \in Get(vault, name) :
            last' = [Blank(vault) EXCEPT !.op = "Get", !.name = name,
                        !.reply = r.reply.err, !.answered = r.reply.answered,
                        !.err = r.err, !.out = r.value,
                        !.endpoint = Some(ClientEndpoint(store.client)),
                        !.was = status[name]]
    /\ UNCHANGED <<store, vault, status, written>>

CallDelete ==
    /\ store.connected
    /\ \E name \in Keys :
        \E r \in Delete(vault, name) :
            /\ vault' = r.vault
            /\ status' = NextStatus(status, r.vault, "Delete", name, r.err)
            /\ written' = NextWritten(written, r.vault, "Delete", name, <<>>, r.err)
            /\ last' = [Blank(vault) EXCEPT !.op = "Delete", !.name = name,
                           !.reply = r.reply.err, !.answered = r.reply.answered,
                           !.err = r.err,
                           !.endpoint = Some(ClientEndpoint(store.client)),
                           !.was = status[name]]
    /\ UNCHANGED store

ListCall(prefixes, limits) ==
    /\ store.connected
    /\ \E prefix \in prefixes, n \in limits :
        \E r \in List(vault, prefix, n) :
            last' = [Blank(vault) EXCEPT !.op = "List", !.prefix = prefix, !.n = n,
                        !.reply = r.reply, !.answered = (r.reply = Nil),
                        !.err = r.err, !.out = r.names, !.cursor = r.cursor,
                        !.npages = r.npages,
                        !.endpoint = Some(ClientEndpoint(store.client))]
    /\ UNCHANGED <<store, vault, status, written>>

\* List with any prefix and limit.
CallList == ListCall(Prefixes, Limits)

\* List of everything: the empty prefix and a negative limit.
CallListAll == ListCall({<<>>}, {-1})

CallClose ==
    /\ store.connected
    /\ last' = [Blank(vault) EXCEPT !.op = "Close", !.err = Close]
    /\ UNCHANGED <<store, vault, status, written>>

Next ==
    \/ CallConnect
    \/ CallStatus
    \/ CallCreate
    \/ CallSet
    \/ CallGet
    \/ CallDelete
    \/ CallListAll
    \/ CallClose

Spec == Init /\ [][Next]_vars

\* Listing alone, over every vault content: the store is connected with the
\* default configuration.
InitList ==
    /\ store = Connect(CHOOSE c \in Configs : c.Addr = "", Nil, Nil).store
    /\ vault \in ListVaults
    /\ status = [m \in Names |-> IF vault[m].present THEN "live" ELSE "never"]
    /\ written = [m \in Names |-> IF vault[m].present THEN Some(<<104>>) ELSE None]
    /\ last = Blank(vault)

NextList == CallList

SpecList == InitList /\ [][NextList]_vars

\* ------------------------------------------------------------- properties

VaultOps == {"Create", "Set", "Get", "Delete", "List"}

\* C1: Create of a name the vault holds never overwrites: the vault stays as
\* it was, entry for entry, the call does not return nil, and when the
\* service answers the call it returns ErrKeyExists.
CreateNeverOverwrites ==
    (last.op = "Create" /\ last.pre[last.name].present) =>
        /\ vault = last.pre
        /\ last.err # Nil
        /\ last.answered => last.err = ErrKeyExists

\* C1 witness: an answered Create of a held name with another value.
CreateOnExistingSeen ==
    /\ last.op = "Create"
    /\ last.pre[last.name].present
    /\ last.answered
    /\ written[last.name] # None
    /\ written[last.name] # Some(last.value)
    /\ last.err = ErrKeyExists

\* C2: a Create of an absent name that the service answers returns nil and
\* stores the value; a Get of a name written by a Create that returned nil,
\* with no Delete of it since, returns exactly the value written whenever the
\* service returns the secret.
CreateThenGetReturnsValue ==
    /\ (last.op = "Create" /\ ~last.pre[last.name].present /\ last.answered) =>
          /\ last.err = Nil
          /\ written[last.name] = Some(last.value)
          /\ vault[last.name].present
    /\ (last.op = "Get" /\ written[last.name] # None /\ last.reply = Nil) =>
          /\ last.err = Nil
          /\ last.out = written[last.name]

\* C2 witness: a Get that returns the two-byte value a Create stored.
GetAfterCreateSeen ==
    /\ last.op = "Get"
    /\ last.reply = Nil
    /\ written[last.name] = Some(<<255, 0>>)
    /\ last.out = Some(<<255, 0>>)

\* C3: a Delete that returns nil leaves the name absent at once; a Get or a
\* Delete of a name that was deleted and not created again, or that was
\* never created, never succeeds, and returns ErrKeyNotFound when the
\* service answers it.
DeletedStaysNotFound ==
    /\ (last.op = "Delete" /\ last.err = Nil) =>
          /\ ~vault[last.name].present
          /\ status[last.name] = "deleted"
    /\ \A m \in Names : status[m] \in {"deleted", "never"} => ~vault[m].present
    /\ (last.op \in {"Get", "Delete"} /\ last.was \in {"deleted", "never"}) =>
          /\ last.err # Nil
          /\ last.out = None
          /\ last.answered => last.err = ErrKeyNotFound

\* C3 witness: an answered Get of a name a Delete removed.
GetAfterDeleteSeen ==
    /\ last.op = "Get"
    /\ last.was = "deleted"
    /\ last.answered
    /\ last.err = ErrKeyNotFound

\* C4: when the vendor call of Create, Set, Get, Delete or List ends with
\* a context error, whatever accompanies it, the call returns that error
\* itself.
ContextErrorReturnedUnchanged ==
    (last.op \in VaultOps /\ IsContextErr(last.reply)) => last.err = last.reply

\* C4 witness: a Create canceled while the service reports that the name
\* exists.
CanceledCreateSeen ==
    /\ last.op = "Create"
    /\ last.reply = VendorErr("Canceled", "ResourceExistsException",
                              "ResourceExistsException")
    /\ last.err = last.reply

\* C5: the client of a connected store sends its requests to the endpoint
\* Status probes: the custom endpoint for a non-empty Addr, the default
\* regional endpoint otherwise.
ClientUsesConfiguredEndpoint ==
    /\ store.connected => ClientEndpoint(store.client) = StatusEndpoint(store.config)
    /\ (last.op \in VaultOps /\ store.config.Addr # "") =>
          last.endpoint = Some(CustomEndpoint(store.config.Addr))

\* The names of the vault before the call that have the prefix.
Matching(prefix) == {m \in Present(last.pre) : HasPrefix(m, prefix)}
\* The names a sequence holds.
Range(seq) == {seq[i] : i \in 1..Len(seq)}

\* C6: however the listing is paged and ordered, List returns names with the
\* prefix, none twice; all of them for a negative limit and at most limit
\* of them otherwise; and an empty cursor exactly when it returned all of
\* them.  When a page fetch fails it returns the error and no names.
ListReturnsMatchingNames ==
    last.op = "List" =>
        IF last.reply # Nil
        THEN last.err = last.reply /\ last.out = <<>> /\ last.cursor = <<>>
        ELSE /\ last.err = Nil
             /\ Range(last.out) \subseteq Matching(last.prefix)
             /\ Cardinality(Range(last.out)) = Len(last.out)
             /\ last.n < 0 => Range(last.out) = Matching(last.prefix)
             /\ last.n >= 0 => Len(last.out) <= last.n
             /\ (last.cursor = <<>>) <=> (Range(last.out) = Matching(last.prefix))

\* C6 witness: a listing of several pages cut short by the limit.
ListCutByLimitSeen ==
    /\ last.op = "List"
    /\ last.reply = Nil
    /\ last.npages >= 2
    /\ last.n = 1
    /\ Len(last.out) = 1
    /\ last.cursor # <<>>
    /\ Cardinality(Matching(last.prefix)) = 2

\* C7: Connect returns a store only after the probe of Status succeeded,
\* and when the probe fails it returns the error of Status and no store.
ConnectProbesFirst ==
    last.op = "Connect" =>
        /\ store.connected <=> last.err = Nil
        /\ store.connected =>
              /\ last.ran
              /\ last.reply = Nil
              /\ last.endpoint = Some(StatusEndpoint(store.config))
        /\ (last.ran /\ last.reply # Nil) =>
              /\ ~store.connected
              /\ last.err = Status(last.cfg[1], last.reply).err

\* C7 witness: a Connect whose probe was refused.
ConnectProbeFailedSeen ==
    /\ last.op = "Connect"
    /\ last.ran
    /\ last.reply = HTTPErr("none", "connection refused")
    /\ ~store.connected
    /\ last.err = ErrUnreachable(last.reply)

\* C8: Get returns ErrKeyNotFound for an absent secret, the "cannot access"
\* error for a secret the service cannot decrypt, and the "failed to read"
\* error for any other vendor error; both carry the name and the cause, and
\* they differ.
GetErrorKinds ==
    (last.op = "Get" /\ last.reply # Nil /\ ~IsContextErr(last.reply)) =>
        /\ (last.answered /\ ~last.pre[last.name].present) =>
              last.err = ErrKeyNotFound
        /\ (last.answered /\ last.pre[last.name].present) =>
              last.err = Errorf("aws: cannot access", last.name, last.reply)
        /\ ~last.answered =>
              last.err = Errorf("aws: failed to read", last.name, last.reply)
        /\ Errorf("aws: cannot access", last.name, last.reply)
              # Errorf("aws: failed to read", last.name, last.reply)

\* C8 witness: a decryption failure reported by error code alone.
GetDecryptionFailureSeen ==
    /\ last.op = "Get"
    /\ last.reply = VendorErr("none", "none", "DecryptionFailureException")
    /\ last.err.kind = "Errorf"
    /\ last.err.msg = "aws: cannot access"

\* C9: Status returns ErrUnreachable only when the probe could not connect,
\* and returns a context error of the probe unchanged.
StatusKeepsContextError ==
    last.op = "Status" =>
        /\ last.err.kind = "ErrUnreachable" =>
              last.reply.cause \in {"dns", "connection refused", "tls"}
        /\ IsContextErr(last.reply) => last.err = last.reply

\* C10: Set ends as Create does: in the same vault, with the same vendor
\* reply, Create returns the same error and leaves the same vault; Set of a
\* name the vault holds does not overwrite it and returns ErrKeyExists when
\* the service answers.
SetIsCreate ==
    last.op = "Set" =>
        /\ \E r \in Create(last.pre, store.config, last.name, last.value) :
              /\ r.reply.err = last.reply
              /\ r.err = last.err
              /\ r.vault = vault
        /\ \A r \in Create(last.pre, store.config, last.name, last.value) :
              (r.reply.err = last.reply /\ r.vault = vault) => r.err = last.err
        /\ last.pre[last.name].present =>
              /\ vault = last.pre
              /\ last.answered => last.err = ErrKeyExists

\* C10 witness: an answered Set of a held name with another value.
SetOnExistingSeen ==
    /\ last.op = "Set"
    /\ last.pre[last.name].present
    /\ last.answered
    /\ written[last.name] # None
    /\ written[last.name] # Some(last.value)
    /\ last.err = ErrKeyExists

====
